---- MODULE Spec2Model ----
(***************************************************************************)
(* Model of the weekly content planner (src/lib/planner): the seeded RNG,  *)
(* the sampling primitives and generateWeekPlan with its quality scorer.   *)
(*                                                                         *)
(* Numbers.  A 32-bit word is a record [hi, lo] of two 16-bit halves, so   *)
(* that no intermediate value leaves the range of the checker's integers.  *)
(* rng() returns u / 2^32 for a 32-bit word u; every use of that float in  *)
(* the source is either floor(rng() * n), rng() < p or rng() * total       *)
(* compared against a running sum of weights, and each is computed here    *)
(* exactly on u (weights are scaled to integers).                          *)
(* Times are whole minutes since 2025-01-01T00:00Z; an ISO string is the   *)
(* record of its calendar fields.                                          *)
(***************************************************************************)
EXTENDS Integers, Sequences, FiniteSets, TLC

\* ------------------------------------------------------------------------
\* 32-bit arithmetic
\* ------------------------------------------------------------------------
W16 == 256 * 256

RECURSIVE BitXor(_, _)
BitXor(a, b) ==
  IF a = 0 THEN b
  ELSE IF b = 0 THEN a
  ELSE ((a + b) % 2) + 2 * BitXor(a \div 2, b \div 2)

RECURSIVE BitOr(_, _)
BitOr(a, b) ==
  IF a = 0 THEN b
  ELSE IF b = 0 THEN a
  ELSE (IF (a % 2) + (b % 2) > 0 THEN 1 ELSE 0) + 2 * BitOr(a \div 2, b \div 2)

\* byte-wise table of ^, built once
XorTable == [a \in 0..255 |-> [b \in 0..255 |-> BitXor(a, b)]]

Xor16(a, b) ==
  XorTable[a \div 256][b \div 256] * 256 + XorTable[a % 256][b % 256]

Word(n) == [hi |-> (n \div W16) % W16, lo |-> n % W16]

Xor32(a, b) == [hi |-> Xor16(a.hi, b.hi), lo |-> Xor16(a.lo, b.lo)]

Add32(a, b) ==
  [hi |-> (a.hi + b.hi + ((a.lo + b.lo) \div W16)) % W16,
   lo |-> (a.lo + b.lo) % W16]

Pow2(n) == CASE n = 7 -> 128 [] n = 14 -> 16384 [] n = 15 -> 32768

\* a >>> n for 0 < n < 16
Shr32(a, n) ==
  [hi |-> a.hi \div Pow2(n),
   lo |-> (a.lo \div Pow2(n)) + (a.hi % Pow2(n)) * (W16 \div Pow2(n))]

\* a | c for a constant c < 2^16
OrLow(a, c) == [hi |-> a.hi, lo |-> BitOr(a.lo, c)]

\* x * y for 16-bit x, y, as the two halves of the 32-bit product
MulLo16(x, y) ==
  (x * (y % 256) + ((x * (y \div 256)) % 256) * 256) % W16
MulHi16(x, y) ==
  ((x * (y % 256) + ((x * (y \div 256)) % 256) * 256) \div W16)
    + ((x * (y \div 256)) \div 256)

\* Math.imul: the low 32 bits of a * b
Imul(a, b) ==
  [hi |-> (MulHi16(a.lo, b.lo) + MulLo16(a.lo, b.hi) + MulLo16(a.hi, b.lo)) % W16,
   lo |-> MulLo16(a.lo, b.lo)]

\* ------------------------------------------------------------------------
\* mulberry32
\* ------------------------------------------------------------------------
Golden == [hi |-> 27947, lo |-> 31221]   \* 0x6d2b79f5

\* t = Math.imul(t ^ (t >>> 15), t | 1)
Mix1(t) == Imul(Xor32(t, Shr32(t, 15)), OrLow(t, 1))

\* t ^= t + Math.imul(t ^ (t >>> 7), t | 61)
Mix2(t) == Xor32(t, Add32(t, Imul(Xor32(t, Shr32(t, 7)), OrLow(t, 61))))

\* (t ^ (t >>> 14)) >>> 0
Mix3(t) == Xor32(t, Shr32(t, 14))

Mix(s) == Mix3(Mix2(Mix1(s)))

\* the value returned once the seed has been advanced to s1
Drawn(s1) == [s |-> s1, v |-> Mix(s1)]

\* one call of the closure: s is the captured seed, v the 32-bit numerator
\* of the returned float
Rng(s) == Drawn(Add32(s, Golden))

\* ------------------------------------------------------------------------
\* Uses of the float rng() = u / 2^32, computed exactly on the word u
\* ------------------------------------------------------------------------
\* Math.floor(rng() * n), for an integer 0 <= n < 2^15
FloorMul(u, n) == (u.hi * n + ((u.lo * n) \div W16)) \div W16

\* rng() < pct / 100
Below(u, pct) == (u.hi * 100 + ((u.lo * 100) \div W16)) < pct * W16

\* r <= 0 after r = rng() * total and subtracting weights that sum to cum:
\* u * total <= cum * 2^32
Crossed(u, total, cum) ==
  LET q   == u.hi * total + ((u.lo * total) \div W16)
      rem == (u.lo * total) % W16
  IN  q < cum * W16 \/ (q = cum * W16 /\ rem = 0)

Max(a, b) == IF a > b THEN a ELSE b
Min(a, b) == IF a < b THEN a ELSE b

clamp(n, lo, hi) == Max(lo, Min(hi, n))

\* ------------------------------------------------------------------------
\* JavaScript values
\* ------------------------------------------------------------------------
Undefined == [undefined |-> TRUE]   \* arr[i] outside the array, arr[NaN]
Null      == [null |-> TRUE]
\* a property read on undefined: the call ends by throwing
TypeError == [threw |-> "TypeError"]

\* arr[i] for a 0-based index i
At(arr, i) == IF i >= 0 /\ i < Len(arr) THEN arr[i + 1] ELSE Undefined

\* arr[idx % arr.length]: idx % 0 is NaN, and arr[NaN] is undefined
AtMod(arr, idx) == IF Len(arr) = 0 THEN Undefined ELSE arr[(idx % Len(arr)) + 1]

\* a ?? b
Coalesce(a, b) == IF a = Undefined \/ a = Null THEN b ELSE a

Range(seq) == {seq[i] : i \in 1..Len(seq)}

RemoveAt(seq, i) == [k \in 1..(Len(seq) - 1) |-> IF k < i THEN seq[k] ELSE seq[k + 1]]

\* arr.slice(0, n)
Slice(seq, n) == [k \in 1..Min(n, Len(seq)) |-> seq[k]]

RECURSIVE Filter(_, _)
\* arr.filter(x => x.id !== id)
Filter(seq, id) ==
  IF seq = <<>> THEN <<>>
  ELSE IF seq[1].id # id THEN <<seq[1]>> \o Filter(Tail(seq), id)
  ELSE Filter(Tail(seq), id)

\* ------------------------------------------------------------------------
\* Sampling primitives (utils.ts); each returns [v: value, s: rng state]
\* ------------------------------------------------------------------------
\* arr[Math.floor(r * arr.length)] for the value r that rng() returned
Picked(r, arr) == [v |-> At(arr, FloorMul(r.v, Len(arr))), s |-> r.s]

pickOne(s, arr) == Picked(Rng(s), arr)

\* Loops carry their variables as one record st, stepped once per iteration.
\* Straight-line code carries its locals as a frame: a record of the closure
\* state s and of the constants declared so far.

\* const <field> = <a call that returned r.v and left the closure at r.s>
Bound(st, field, r) == [st EXCEPT !.s = r.s] @@ (field :> r.v)

\* const <field> = rng(), kept as the numerator of the float
Draw(st, field) == Bound(st, field, Rng(st.s))

\* [a[i], a[j]] = [a[j], a[i]]; i--, for j = Math.floor(r * (i + 1))
Swapped(st, r) ==
  LET j == FloorMul(r.v, st.i + 1)
  IN  [s |-> r.s,
       a |-> [st.a EXCEPT ![st.i + 1] = st.a[j + 1], ![j + 1] = st.a[st.i + 1]],
       i |-> st.i - 1]

\* const j = Math.floor(rng() * (i + 1)); [a[i], a[j]] = [a[j], a[i]]; i--
ShuffleStep(st) == Swapped(st, Rng(st.s))

RECURSIVE ShuffleLoop(_)
ShuffleLoop(st) ==
  IF ~(st.i > 0) THEN [v |-> st.a, s |-> st.s] ELSE ShuffleLoop(ShuffleStep(st))

shuffle(s, arr) == ShuffleLoop([s |-> s, a |-> arr, i |-> Len(arr) - 1])

RECURSIVE TotalWeight(_, _)
\* pool.reduce((s, it) => s + Math.max(0, weight(it)), 0)
TotalWeight(pool, weight) ==
  IF pool = <<>> THEN 0
  ELSE Max(0, weight[pool[1]]) + TotalWeight(Tail(pool), weight)

RECURSIVE ScanPool(_, _, _, _, _, _)
\* for (; idx < pool.length; idx++) { r -= max(0, w(pool[idx])); if (r <= 0) break; }
ScanPool(u, total, pool, weight, idx, cum) ==
  IF ~(idx < Len(pool)) THEN idx
  ELSE LET c == cum + Max(0, weight[pool[idx + 1]])
       IN  IF Crossed(u, total, c) THEN idx
           ELSE ScanPool(u, total, pool, weight, idx + 1, c)

\* the index that pool.splice is called with, found from the value r
SpliceAt(st, weight, total, r) ==
  IF total <= 0
  THEN FloorMul(r.v, Len(st.pool))
  ELSE Min(ScanPool(r.v, total, st.pool, weight, 0, 0), Len(st.pool) - 1)

\* variant: the element is read and left in the pool
PushedKeeping(st, r, at) ==
  [s |-> r.s, items |-> st.items, pool |-> st.pool,
   out |-> Append(st.out, st.pool[at + 1]), n |-> st.n + 1]

\* variant: pool is the caller's array, not a copy of it
PushedInPlace(st, r, at) ==
  [s |-> r.s, items |-> RemoveAt(st.pool, at + 1), pool |-> RemoveAt(st.pool, at + 1),
   out |-> Append(st.out, st.pool[at + 1]), n |-> st.n + 1]

\* out.push(pool.splice(at, 1)[0]); items is the caller's array
Pushed(st, r, at) ==
  [s |-> r.s, items |-> st.items, pool |-> RemoveAt(st.pool, at + 1),
   out |-> Append(st.out, st.pool[at + 1]), n |-> st.n + 1]

Spliced(st, weight, total, r) == Pushed(st, r, SpliceAt(st, weight, total, r))

\* one draw of the while loop
SampleStep(st, weight) == Spliced(st, weight, TotalWeight(st.pool, weight), Rng(st.s))

RECURSIVE SampleLoop(_, _, _)
SampleLoop(st, weight, k) ==
  IF ~(st.n < k /\ Len(st.pool) > 0) THEN [v |-> st.out, s |-> st.s, items |-> st.items]
  ELSE SampleLoop(SampleStep(st, weight), weight, k)

\* weight is the callback as a function on the items, in scaled units; the
\* result also tells what the caller's array holds afterwards.
\* const pool = [...items]; const out = []
weightedSampleUnique(s, items, weight, k) ==
  SampleLoop([s |-> s, items |-> items, pool |-> items, out |-> <<>>, n |-> 0], weight, k)

\* ------------------------------------------------------------------------
\* Dates (utils.ts): a Date is a count of minutes since 2025-01-01T00:00Z
\* ------------------------------------------------------------------------
EpochYear == 2025
MinutesPerDay == 24 * 60

IsLeap(y) == (y % 4 = 0 /\ y % 100 # 0) \/ y % 400 = 0
YearLen(y) == IF IsLeap(y) THEN 366 ELSE 365
MonthLen(y, m) ==
  IF m = 2 THEN (IF IsLeap(y) THEN 29 ELSE 28)
  ELSE IF m \in {4, 6, 9, 11} THEN 30 ELSE 31

RECURSIVE YearOf(_, _)
\* [y, d]: the year holding day number n (counted from 1 Jan of year y) and
\* the 0-based day within it
YearOf(n, y) == IF n < YearLen(y) THEN [y |-> y, d |-> n] ELSE YearOf(n - YearLen(y), y + 1)

RECURSIVE MonthOf(_, _, _)
MonthOf(d, y, m) ==
  IF d < MonthLen(y, m) THEN [m |-> m, d |-> d + 1] ELSE MonthOf(d - MonthLen(y, m), y, m + 1)

\* date.toISOString(), as the fields of "YYYY-MM-DDTHH:MM:00.000Z"
iso(t) ==
  LET yd == YearOf(t \div MinutesPerDay, EpochYear)
      md == MonthOf(yd.d, yd.y, 1)
  IN  [year |-> yd.y, month |-> md.m, day |-> md.d,
       hour |-> (t % MinutesPerDay) \div 60, minute |-> t % 60]

RECURSIVE DaysBeforeYear(_)
DaysBeforeYear(y) == IF y <= EpochYear THEN 0 ELSE YearLen(y - 1) + DaysBeforeYear(y - 1)

RECURSIVE DaysBeforeMonth(_, _)
DaysBeforeMonth(y, m) == IF m <= 1 THEN 0 ELSE MonthLen(y, m - 1) + DaysBeforeMonth(y, m - 1)

\* new Date(isoString)
ParseDate(str) ==
  (DaysBeforeYear(str.year) + DaysBeforeMonth(str.year, str.month) + (str.day - 1))
     * MinutesPerDay + str.hour * 60 + str.minute

\* variant: the day offset is applied to the epoch, not to the date given
addDaysFromEpoch(t, days) == days * MinutesPerDay + (t % MinutesPerDay)

addDays(t, days) == ParseDate([iso(t) EXCEPT !.hour = 0, !.minute = 0])
                      + days * MinutesPerDay + (t % MinutesPerDay)

\* variant: the offset is lost
addMinutesDropped(t, minutes) == t

\* variant: the offset is taken as hours
addMinutesAsHours(t, minutes) == t + 60 * minutes

addMinutes(t, minutes) == t + minutes

Digit(n) == 48 + n          \* charCodeAt of a decimal digit
Digits2(n) == <<Digit(n \div 10), Digit(n % 10)>>
Digits4(n) == <<Digit(n \div 1000), Digit((n \div 100) % 10)>> \o Digits2(n % 100)

\* the char codes of an ISO string: - is 45, T 84, : 58, . 46, Z 90
IsoChars(str) ==
  Digits4(str.year) \o <<45>> \o Digits2(str.month) \o <<45>> \o Digits2(str.day)
    \o <<84>> \o Digits2(str.hour) \o <<58>> \o Digits2(str.minute) \o <<58>>
    \o Digits2(0) \o <<46>> \o <<Digit(0), Digit(0), Digit(0)>> \o <<90>>

RECURSIVE SumCodes(_)
\* str.split("").reduce((acc, ch) => acc + ch.charCodeAt(0), 0)
SumCodes(chars) == IF chars = <<>> THEN 0 ELSE chars[1] + SumCodes(Tail(chars))

\* ------------------------------------------------------------------------
\* Text builders (generateWeekPlan.ts).  A text is the record of the
\* template chosen and of the input strings interpolated into it.
\* ------------------------------------------------------------------------
\* s.toLowerCase() on the venue names of the model
ToLower(name) ==
  CASE name = "r/PowerPoint" -> "r/powerpoint"
    [] name = "r/Canva"      -> "r/canva"
    [] name = "r/ClaudeAI"   -> "r/claudeai"
    [] OTHER                 -> name

\* lower.includes(needle) on the venue names of the model
Includes(lower, needle) ==
  CASE needle = "powerpoint" -> lower \in {"r/powerpoint"}
    [] needle = "canva"      -> lower \in {"r/canva"}
    [] needle = "claude"     -> lower \in {"r/claudeai"}

TitleTemplates(subreddit) ==
  <<"whats_the_best", "any_good_recs", "struggling_with", "best_workflow", "vs_alternatives">>
    \o (IF Includes(ToLower(subreddit), "powerpoint")
        THEN <<"powerpoint_people", "doing_in_powerpoint">> ELSE <<>>)
    \o (IF Includes(ToLower(subreddit), "canva") THEN <<"canva_users">> ELSE <<>>)
    \o (IF Includes(ToLower(subreddit), "claude") THEN <<"claude_for">> ELSE <<>>)

\* the title for the template t.v that pickOne returned
TitleText(keyword, companyName, t) ==
  [v |-> [template |-> t.v, k |-> keyword.phrase,
          company |-> IF t.v = "vs_alternatives" THEN <<companyName>> ELSE <<>>],
   s |-> t.s]

buildPostTitle(keyword, subreddit, companyName, s) ==
  TitleText(keyword, companyName, pickOne(s, TitleTemplates(subreddit)))

\* const <field> = pickOne(rng, arr)
Pick(st, field, arr) == Bound(st, field, pickOne(st.s, arr))

\* includeSoftMention ? pickOne(rng, [...]) : "", where includeSoftMention
\* is softRoll < 0.45 for the value softRoll that rng() returned
SoftMention(st) ==
  IF Below(st.softRoll, 45) THEN Pick(st, "softMention", <<1, 2, 3>>) ELSE st

\* the constants of buildPostBody that call rng, in the order of the source
BodyDraws(s) ==
  SoftMention(Draw(Pick(Pick(Pick([s |-> s],
    "painPoint", <<1, 2, 3, 4, 5>>),
    "constraint", <<1, 2, 3, 4, 5>>),
    "prompt", <<1, 2, 3, 4, 5>>),
    "softRoll"))

\* the returned template literal
BodyText(company, persona, keyword, st) ==
  [v |-> [bio |-> persona.bio, phrase |-> keyword.phrase,
          painPoint |-> st.painPoint, constraint |-> st.constraint, prompt |-> st.prompt,
          mention |-> IF Below(st.softRoll, 45)
                      THEN <<st.softMention, company.name>> ELSE <<>>],
   s |-> st.s]

\* persona is a persona record (the caller has checked it is not undefined)
buildPostBody(company, persona, keyword, s) ==
  BodyText(company, persona, keyword, BodyDraws(s))

\* the comment for the template t.v that pickOne returned
CommentText(persona, keyword, company, role, t) ==
  [v |-> [prefix |-> <<persona.username>>, role |-> role, template |-> t.v,
          company |-> IF role = "support" THEN <<company.name>> ELSE <<>>,
          phrase |-> IF role = "neutral" /\ t.v = 2 THEN <<keyword.phrase>> ELSE <<>>],
   s |-> t.s]

\* `${persona.username}: ${pickOne(rng, pick)}`; support templates name the
\* company, the second neutral template quotes the keyword phrase
buildComment(persona, keyword, company, s, role) ==
  CommentText(persona, keyword, company, role, pickOne(s, <<1, 2, 3>>))

\* text.replace(`${username}: `, "")
StripPrefix(text, username) ==
  IF text.prefix = <<username>> THEN [text EXCEPT !.prefix = <<>>] ELSE text

\* the input strings that match one of the promotional patterns
SalesyStrings == {"DM me for a discount"}

\* looksManufactured on a post body or a comment text: none of the fixed
\* templates matches a pattern, so only interpolated inputs can
looksManufactured(text) ==
  IF "bio" \in DOMAIN text
  THEN text.bio \in SalesyStrings \/ text.phrase \in SalesyStrings
         \/ (text.mention # <<>> /\ text.mention[2] \in SalesyStrings)
  ELSE (text.company # <<>> /\ text.company[1] \in SalesyStrings)
         \/ (text.phrase # <<>> /\ text.phrase[1] \in SalesyStrings)
         \/ (text.prefix # <<>> /\ text.prefix[1] \in SalesyStrings)

\* ------------------------------------------------------------------------
\* generateWeekPlan
\* ------------------------------------------------------------------------
\* inputs.seed ?? Math.abs(sum of the char codes of company.id + iso(weekStart))
DerivedSeed(inputs) ==
  LET sum == SumCodes(inputs.company.id \o IsoChars(iso(inputs.weekStart)))
  IN  IF sum < 0 THEN -sum ELSE sum

SeedOf(inputs) ==
  IF "seed" \in DOMAIN inputs THEN inputs.seed ELSE DerivedSeed(inputs)

\* variant: the upper limit off by one
PostsPerWeekUpTo15(company) ==
  clamp(IF "posts_per_week" \in DOMAIN company THEN company.posts_per_week ELSE 3, 1, 15)

\* clamp(company.posts_per_week ?? 3, 1, 14)
PostsPerWeek(company) ==
  clamp(IF "posts_per_week" \in DOMAIN company THEN company.posts_per_week ELSE 3, 1, 14)

\* the weight callbacks, in hundredths
KeywordWeight(inputs) ==
  [k \in Range(inputs.keywords) |->
     IF k.id \in inputs.recentKeywordIds THEN 15 ELSE 100]

SubredditWeight(inputs) ==
  [sr \in Range(inputs.subreddits) |->
     IF ToLower(sr.name) \in {ToLower(n) : n \in inputs.recentSubreddits} THEN 35 ELSE 100]

\* variant: the index is not advanced
PostAuthorsStuck(personaPool, postsPerWeek) ==
  [i \in 1..postsPerWeek |-> AtMod(personaPool, 0)]

\* personaPool[i % personaPool.length] for i = 0 .. postsPerWeek - 1
PostAuthors(personaPool, postsPerWeek) ==
  [i \in 1..postsPerWeek |-> AtMod(personaPool, i - 1)]

\* dayWeights in twentieths: 1.1, 1.2, 1.15, 1.2, 1.1, 0.9, 0.6
DayWeights == <<22, 24, 23, 24, 22, 18, 12>>

RECURSIVE SumSeq(_)
SumSeq(seq) == IF seq = <<>> THEN 0 ELSE seq[1] + SumSeq(Tail(seq))

RECURSIVE DayScan(_, _, _, _)
\* for (; day < dayWeights.length; day++) { r -= dayWeights[day]; if (r <= 0) break; }
DayScan(u, total, day, cum) ==
  IF ~(day < Len(DayWeights)) THEN day
  ELSE IF Crossed(u, total, cum + DayWeights[day + 1]) THEN day
  ELSE DayScan(u, total, day + 1, cum + DayWeights[day + 1])

\* dayBuckets.push(clamp(day, 0, 6)) for the value r that rng() returned
Bucketed(st, r) ==
  LET day == DayScan(r.v, SumSeq(DayWeights), 0, 0)
  IN  [s |-> r.s, buckets |-> Append(st.buckets, clamp(day, 0, 6)), i |-> st.i + 1]

DayStep(st) == Bucketed(st, Rng(st.s))

RECURSIVE DayLoop(_, _)
DayLoop(st, postsPerWeek) ==
  IF ~(st.i < postsPerWeek) THEN [v |-> st.buckets, s |-> st.s]
  ELSE DayLoop(DayStep(st), postsPerWeek)

RECURSIVE Insert(_, _)
Insert(x, sorted) ==
  IF sorted = <<>> THEN <<x>>
  ELSE IF x < sorted[1] THEN <<x>> \o sorted
  ELSE <<sorted[1]>> \o Insert(x, Tail(sorted))

RECURSIVE SortAsc(_)
\* dayBuckets.sort((a, b) => a - b)
\* variant: the sort is left out
SortAscSkipped(seq) == seq

SortAsc(seq) == IF seq = <<>> THEN <<>> ELSE Insert(seq[Len(seq)], SortAsc(SubSeq(seq, 1, Len(seq) - 1)))

\* variant: a window of 8 hours, up to midnight
MinuteOfDayUntilMidnight(u) == (((16 * 60) \div 5) + FloorMul(u, (8 * 60) \div 5)) * 5

\* Math.floor((16 * 60 + rng() * (7 * 60)) / 5) * 5: 16 * 60 is a multiple of
\* 5, so the floor is 16 * 60 / 5 + floor(rng() * (7 * 60 / 5))
MinuteOfDay(u) == (((16 * 60) \div 5) + FloorMul(u, (7 * 60) \div 5)) * 5

\* variant: the primary keyword is not filtered out of the extras
ExtrasUnfiltered(shuffled, keyword, u) ==
  LET kept == Slice(shuffled, IF Below(u, 60) THEN 1 ELSE 2)
  IN  [i \in 1..Len(kept) |-> kept[i].id]

\* shuffle(rng, keywords).filter(k => k.id !== keyword.id)
\*   .slice(0, rng() < 0.6 ? 1 : 2).map(k => k.id)
Extras(shuffled, keyword, u) ==
  LET kept == Slice(Filter(shuffled, keyword.id), IF Below(u, 60) THEN 1 ELSE 2)
  IN  [i \in 1..Len(kept) |-> kept[i].id]

\* [keyword.id, ...extras].slice(0, 3)
KeywordIds(keyword, extras) == Slice(<<keyword.id>> \o extras, 3)

\* const <field> = shuffle(rng, arr)
Shuffled(st, field, arr) == Bound(st, field, shuffle(st.s, arr))

\* the calls of rng in the callback before the title, in the order of the
\* source: minuteOfDay (line 182), then the shuffle and the rng() < 0.6 of
\* extras (lines 186-189)
PostDraws(s, keywords) ==
  Draw(Shuffled(Draw([s |-> s], "minuteOfDay"), "shuffled", keywords), "extraRoll")

\* the post built from those draws d.  [threw, v, s]: threw when the
\* callback reads a property of undefined
PostOf(d, idx, inputs, keywordPicks, subredditPicks, postAuthors, dayBuckets) ==
  LET keyword   == AtMod(keywordPicks, idx)
      subreddit == AtMod(subredditPicks, idx)
      author    == postAuthors[idx + 1]
      base      == addDays(inputs.weekStart, dayBuckets[idx + 1])
      scheduled == addMinutes(base, MinuteOfDay(d.minuteOfDay))
  IN  IF keyword = Undefined \/ subreddit = Undefined
      THEN \* keyword.id (line 191), subreddit.name (line 194)
           [threw |-> TRUE, v |-> Undefined, s |-> d.s]
      ELSE
        LET title == buildPostTitle(keyword, subreddit.name, inputs.company.name, d.s)
            body  == buildPostBody(inputs.company, author, keyword, title.s)
        IN  IF author = Undefined
            THEN \* persona.bio (line 76)
                 [threw |-> TRUE, v |-> Undefined, s |-> title.s]
            ELSE
            [threw |-> FALSE,
             v |-> [subreddit |-> subreddit.name,
                    title |-> title.v,
                    body |-> body.v,
                    author_username |-> author.username,
                    scheduled_at |-> iso(scheduled),
                    keyword_ids |-> KeywordIds(keyword,
                                      Extras(d.shuffled, keyword, d.extraRoll))],
             s |-> body.s]

\* the callback of posts = Array.from({length: postsPerWeek}).map((_, idx) => ...)
BuildPost(s, idx, inputs, keywordPicks, subredditPicks, postAuthors, dayBuckets) ==
  PostOf(PostDraws(s, inputs.keywords), idx, inputs, keywordPicks, subredditPicks,
         postAuthors, dayBuckets)

\* the map after a callback that returned or threw p
PostPushed(st, p) ==
  [s |-> p.s, threw |-> p.threw,
   posts |-> IF p.threw THEN st.posts ELSE Append(st.posts, p.v),
   idx |-> st.idx + 1]

\* variant: a callback that throws is skipped and the map goes on
PostStepSkipping(st, inputs, keywordPicks, subredditPicks, postAuthors, dayBuckets) ==
  [PostPushed(st, BuildPost(st.s, st.idx, inputs, keywordPicks, subredditPicks,
                            postAuthors, dayBuckets)) EXCEPT !.threw = FALSE]

PostStep(st, inputs, keywordPicks, subredditPicks, postAuthors, dayBuckets) ==
  PostPushed(st, BuildPost(st.s, st.idx, inputs, keywordPicks, subredditPicks,
                           postAuthors, dayBuckets))

RECURSIVE PostLoop(_, _, _, _, _, _)
\* the map over idx = 0 .. postsPerWeek - 1, left at the first throw
PostLoop(st, inputs, keywordPicks, subredditPicks, postAuthors, dayBuckets) ==
  IF st.threw \/ ~(st.idx < Len(postAuthors))
  THEN [threw |-> st.threw, v |-> st.posts, s |-> st.s]
  ELSE PostLoop(PostStep(st, inputs, keywordPicks, subredditPicks, postAuthors, dayBuckets),
                inputs, keywordPicks, subredditPicks, postAuthors, dayBuckets)

\* variant: the post author stays in the commenter pool
FilterUserKeepingAll(seq, username) == seq

RECURSIVE FilterUser(_, _)
\* personas.filter(x => x.username !== username)
FilterUser(seq, username) ==
  IF seq = <<>> THEN <<>>
  ELSE IF seq[1].username # username THEN <<seq[1]>> \o FilterUser(Tail(seq), username)
  ELSE FilterUser(Tail(seq), username)

RECURSIVE Find(_, _)
\* keywords.find(k => k.id === id)
Find(seq, id) ==
  IF seq = <<>> THEN Undefined
  ELSE IF seq[1].id = id THEN seq[1] ELSE Find(Tail(seq), id)

OpReplyText == [prefix |-> <<>>, role |-> "op_reply", template |-> 1,
                company |-> <<>>, phrase |-> <<>>]

\* parent_temp_index: null, or the index of a comment
NoParent == <<>>

\* variant: the index is read after the push
ParentAtAfterPush(i) == <<i + 1>>

ParentAt(i) == <<i>>

Comment(p, parent, text, username, t) ==
  [post_temp_index |-> p, parent_temp_index |-> parent, comment_text |-> text,
   username |-> username, scheduled_at |-> iso(t)]

\* variant: the position within the post's own thread
C1IndexInThread(comments) == 0

\* const c1Index = comments.length: a position in the list of all comments
C1Index(comments) == Len(comments)

\* const nComments = rng() < 0.25 ? 2 : rng() < 0.75 ? 3 : 4: the second
\* call happens only when the first value is not below 0.25
SecondRoll(st) == IF Below(st.n1, 25) THEN st ELSE Draw(st, "n2")

NComments(st) == IF Below(st.n1, 25) THEN 2 ELSE IF Below(st.n2, 75) THEN 3 ELSE 4

\* lines 208-226: nComments, commenters, the minutes of t and the role of c1
ThreadOpening(s, pool) ==
  Draw(Draw(Shuffled(SecondRoll(Draw([s |-> s], "n1")), "commenters", pool), "d1"), "role1")

\* keywords.find(k => k.id === keywordId) ?? keywords[0]
ThreadKeyword(post, inputs) ==
  Coalesce(Find(inputs.keywords, post.keyword_ids[1]), At(inputs.keywords, 0))

\* variant: the pool of commenters is not consulted
C1AuthorFirstPersona(st, inputs) == At(inputs.personas, 0)

\* commenters[0] ?? personas[0]
C1Author(st, inputs) == Coalesce(At(st.commenters, 0), At(inputs.personas, 0))

\* commenters[1] ?? commenters[0] ?? personas[0]
SupportAuthor(st, inputs) ==
  Coalesce(At(st.commenters, 1), Coalesce(At(st.commenters, 0), At(inputs.personas, 0)))

\* commenters[2] ?? supportAuthor
ExtraAuthor(st, inputs) == Coalesce(At(st.commenters, 2), SupportAuthor(st, inputs))

\* const c1Text = buildComment(c1Author, kw, company, rng, role)
FirstComment(st, post, inputs) ==
  Bound(st, "c1Text",
        buildComment(C1Author(st, inputs), ThreadKeyword(post, inputs), inputs.company, st.s,
                     IF Below(st.role1, 70) THEN "neutral" ELSE "counter"))

\* if (rng() < 0.65) { t = addMinutes(t, 6 + Math.floor(rng() * 25)); ... }
OpReplyRoll(st) == IF Below(st.op, 65) THEN Draw(st, "d2") ELSE st

\* const supText = buildComment(supportAuthor, kw, company, rng, "support")
SupportComment(st, post, inputs) ==
  Bound(st, "supText",
        buildComment(SupportAuthor(st, inputs), ThreadKeyword(post, inputs), inputs.company,
                     st.s, "support"))

\* const exText = buildComment(extraAuthor, kw, company, rng, role)
ExtraComment(st, post, inputs) ==
  Bound(st, "exText",
        buildComment(ExtraAuthor(st, inputs), ThreadKeyword(post, inputs), inputs.company,
                     st.s, IF Below(st.role4, 50) THEN "neutral" ELSE "counter"))

\* variant: the extra comment is written from three on
WantsExtraFromThree(st) == NComments(st) >= 3

\* nComments >= 4
WantsExtra(st) == NComments(st) >= 4

\* if (nComments >= 4) { t = addMinutes(t, 8 + Math.floor(rng() * 40)); ... }
ExtraRoll(st, post, inputs) ==
  IF WantsExtra(st)
  THEN ExtraComment(Draw(Draw(st, "d4"), "role4"), post, inputs)
  ELSE st

\* the calls of rng in one iteration of the thread loop, in the order of
\* the source; pool is the list the commenters are shuffled from
ThreadDraws(s, pool, post, inputs) ==
  ExtraRoll(
    SupportComment(
      Draw(OpReplyRoll(Draw(FirstComment(ThreadOpening(s, pool), post, inputs), "op")),
           "d3"),
      post, inputs),
    post, inputs)

\* the comments pushed in that iteration, from its draws st.  [v: the list
\* after the iteration, s, n: the value of nComments]
ThreadComments(st, comments, p, post, inputs) ==
  LET t1        == addMinutes(ParseDate(post.scheduled_at), 25 + FloorMul(st.d1, 95))
      c1Author  == C1Author(st, inputs)
      c1Index   == C1Index(comments)
      after1    == Append(comments,
                     Comment(p, NoParent, StripPrefix(st.c1Text, c1Author.username),
                             c1Author.username, t1))
      \* optional reply by OP
      opReply   == Below(st.op, 65)
      t2        == IF opReply THEN addMinutes(t1, 6 + FloorMul(st.d2, 25)) ELSE t1
      after2    == IF opReply
                   THEN Append(after1, Comment(p, ParentAt(c1Index), OpReplyText,
                                               post.author_username, t2))
                   ELSE after1
      \* support
      supportAuthor == SupportAuthor(st, inputs)
      t3        == addMinutes(t2, 10 + FloorMul(st.d3, 35))
      after3    == Append(after2,
                     Comment(p, ParentAt(c1Index),
                             StripPrefix(st.supText, supportAuthor.username),
                             supportAuthor.username, t3))
      \* optional extra comment
      extraAuthor == ExtraAuthor(st, inputs)
      t4        == addMinutes(t3, 8 + FloorMul(st.d4, 40))
  IN  IF WantsExtra(st)
      THEN [v |-> Append(after3,
                    Comment(p, NoParent, StripPrefix(st.exText, extraAuthor.username),
                            extraAuthor.username, t4)),
            s |-> st.s, n |-> NComments(st)]
      ELSE [v |-> after3, s |-> st.s, n |-> NComments(st)]

\* one iteration of the thread loop for post p (0-based); comments is the
\* list built so far
BuildThread(s, comments, p, post, inputs) ==
  ThreadComments(ThreadDraws(s, FilterUser(inputs.personas, post.author_username),
                             post, inputs),
                 comments, p, post, inputs)

\* variant: the thread is built and then not kept
ThreadPushedDropping(st, th) ==
  [s |-> th.s, comments |-> st.comments, p |-> st.p + 1,
   nComments |-> Append(st.nComments, th.n)]

\* the loop's variables after the iteration; nComments lists the value that
\* nComments had in each iteration so far
ThreadPushed(st, th) ==
  [s |-> th.s, comments |-> th.v, p |-> st.p + 1,
   nComments |-> Append(st.nComments, th.n)]

ThreadStep(st, posts, inputs) ==
  ThreadPushed(st, BuildThread(st.s, st.comments, st.p, posts[st.p + 1], inputs))

RECURSIVE ThreadLoop(_, _, _)
\* for (let p = 0; p < posts.length; p++)
ThreadLoop(st, posts, inputs) ==
  IF ~(st.p < Len(posts))
  THEN [v |-> st.comments, s |-> st.s, nComments |-> st.nComments]
  ELSE ThreadLoop(ThreadStep(st, posts, inputs), posts, inputs)

\* ------------------------------------------------------------------------
\* Quality scoring
\* ------------------------------------------------------------------------
\* Math.max(...authorCounts.values())
MaxAuthorCount(posts) ==
  LET count(u) == Cardinality({i \in 1..Len(posts) : posts[i].author_username = u})
      names    == {posts[i].author_username : i \in 1..Len(posts)}
  IN  CHOOSE c \in {count(u) : u \in names} : \A u \in names : count(u) <= c

\* comments.filter(c => c.username === posts[c.post_temp_index].author_username).length
OpReplyCount(posts, comments) ==
  Cardinality({i \in 1..Len(comments) :
     comments[i].username = posts[comments[i].post_temp_index + 1].author_username})

\* variant: a share of exactly 60% counts
SinglePersonaDominatesFromSixty(posts) ==
  IF posts = <<>> THEN FALSE ELSE 5 * MaxAuthorCount(posts) >= 3 * Len(posts)

\* variant: a plan of one post is never flagged
SinglePersonaDominatesOfSeveral(posts) ==
  Len(posts) > 1 /\ 5 * MaxAuthorCount(posts) > 3 * Len(posts)

\* maxShare > 0.6, with maxShare = max / posts.length: 5 * max > 3 * length
\* (Math.max() of no values is -Infinity, and -Infinity / 0 is not > 0.6)
SinglePersonaDominates(posts) ==
  IF posts = <<>> THEN FALSE ELSE 5 * MaxAuthorCount(posts) > 3 * Len(posts)

Salesy(posts, comments) ==
  \/ \E i \in 1..Len(posts) : looksManufactured(posts[i].body)
  \/ \E i \in 1..Len(comments) : looksManufactured(comments[i].comment_text)

\* variant: the ratio is taken over the comments, not over the posts
TooManyOpRepliesPerComment(posts, comments) ==
  5 * OpReplyCount(posts, comments) > 6 * Max(1, Len(comments))

\* opReplyCount / Math.max(1, posts.length) > 1.2: 5 * count > 6 * max(1, length)
TooManyOpReplies(posts, comments) ==
  5 * OpReplyCount(posts, comments) > 6 * Max(1, Len(posts))

\* variant: the penalties of the first two flags exchanged
ScoreSwapped(flags) ==
  clamp(9 - (IF flags.single_persona_dominates THEN 3 ELSE 0)
          - (IF flags.salesy_language THEN 2 ELSE 0)
          - (IF flags.too_many_op_replies THEN 1 ELSE 0), 0, 10)

Score(flags) ==
  clamp(9 - (IF flags.single_persona_dominates THEN 2 ELSE 0)
          - (IF flags.salesy_language THEN 3 ELSE 0)
          - (IF flags.too_many_op_replies THEN 1 ELSE 0), 0, 10)

Notes(flags) ==
  <<IF flags.single_persona_dominates
      THEN "Rotate posting personas more." ELSE "Persona rotation looks good.",
    IF flags.salesy_language
      THEN "Language feels promotional; soften mentions and reduce CTAs."
      ELSE "Tone looks natural.",
    IF flags.too_many_op_replies
      THEN "OP replies are a bit frequent; let others talk more."
      ELSE "Conversation pacing is reasonable.">>

Quality(posts, comments) ==
  LET flags == [single_persona_dominates |-> SinglePersonaDominates(posts),
                salesy_language |-> Salesy(posts, comments),
                too_many_op_replies |-> TooManyOpReplies(posts, comments)]
  IN  [score |-> Score(flags), flags |-> flags, notes |-> Notes(flags)]

\* ------------------------------------------------------------------------
\* generateWeekPlan: lines 131-311, run on the closure state rng.
\* [out: the returned result or TypeError, s: the closure state it leaves,
\* nComments: the values the local nComments had, one per post]
\* ------------------------------------------------------------------------
\* const <field> = weightedSampleUnique(rng, items, weight, k)
Sampled(st, field, items, weight, k) ==
  Bound(st, field, weightedSampleUnique(st.s, items, weight, k))

\* const dayBuckets = []; for (...) dayBuckets.push(...)
Bucketing(st, field, postsPerWeek) ==
  Bound(st, field, DayLoop([s |-> st.s, buckets |-> <<>>, i |-> 0], postsPerWeek))

\* lines 137-173: keywordPicks, subredditPicks, personaPool and the day
\* buckets as pushed
PlanPicks(inputs, rng, postsPerWeek) ==
  Bucketing(
    Shuffled(
      Sampled(
        Sampled([s |-> rng],
          "keywordPicks", inputs.keywords, KeywordWeight(inputs), postsPerWeek),
        "subredditPicks", inputs.subreddits, SubredditWeight(inputs), postsPerWeek),
      "personaPool", inputs.personas),
    "dayBuckets", postsPerWeek)

\* lines 157-201: postAuthors, dayBuckets.sort and the map that builds posts
PlanPosts(st, inputs, postsPerWeek) ==
  PostLoop([s |-> st.s, threw |-> FALSE, posts |-> <<>>, idx |-> 0],
           inputs, st.keywordPicks, st.subredditPicks,
           PostAuthors(st.personaPool, postsPerWeek), SortAsc(st.dayBuckets))

\* lines 280-311: the returned object
PlanResult(posts, comments) ==
  [out |-> [posts |-> posts, comments |-> comments.v,
            quality |-> Quality(posts, comments.v)],
   s |-> comments.s, nComments |-> comments.nComments]

\* lines 205-276: the thread loop, which a throw in the map never reaches
PlanThreads(posts, inputs) ==
  IF posts.threw
  THEN [out |-> TypeError, s |-> posts.s, nComments |-> <<>>]
  ELSE PlanResult(posts.v,
                  ThreadLoop([s |-> posts.s, comments |-> <<>>, p |-> 0, nComments |-> <<>>],
                             posts.v, inputs))

GeneratePlan(inputs, rng) ==
  PlanThreads(PlanPosts(PlanPicks(inputs, rng, PostsPerWeek(inputs.company)),
                        inputs, PostsPerWeek(inputs.company)),
              inputs)

\* const rng = mulberry32(seed): the state captured by a new closure
mulberry32(seed) == Word(seed)

\* variant: one closure shared by all calls
generateWeekPlanSharedRng(inputs, leftover) == GeneratePlan(inputs, leftover)

\* a call of generateWeekPlan; leftover is the state in which the closure of
\* the previous call was abandoned, which a call never reads
generateWeekPlan(inputs, leftover) ==
  GeneratePlan(inputs, mulberry32(SeedOf(inputs)))

\* ------------------------------------------------------------------------
\* The caller's rows
\* ------------------------------------------------------------------------
MaxPersonas   == 4
MaxKeywords   == 3
MaxSubreddits == 2
MaxWeek       == 3
MaxCalls      == 2
MaxPostsPerWeek == 2
MaxWidePosts  == 16

PersonaRows ==
  <<[id |-> "p1", username |-> "alice", bio |-> "product manager"],
    [id |-> "p2", username |-> "bob",   bio |-> "designer"],
    [id |-> "p3", username |-> "carol", bio |-> "founder"],
    [id |-> "p4", username |-> "dave",  bio |-> "consultant"],
    [id |-> "p5", username |-> "erin",  bio |-> "analyst"],
    [id |-> "p6", username |-> "frank", bio |-> "student"]>>

KeywordRows ==
  <<[id |-> "k1", phrase |-> "slide templates"],
    [id |-> "k2", phrase |-> "presentation workflow"],
    [id |-> "k3", phrase |-> "export to pdf"],
    [id |-> "k4", phrase |-> "pitch deck"],
    [id |-> "k5", phrase |-> "speaker notes"]>>

SubredditRows ==
  <<[id |-> "s1", name |-> "r/design"],
    [id |-> "s2", name |-> "r/PowerPoint"],
    [id |-> "s3", name |-> "r/presentations"],
    [id |-> "s4", name |-> "r/Canva"]>>

\* the company id "c1", as char codes
CompanyId == <<99, 49>>

Company(ppw) == [id |-> CompanyId, name |-> "Acme", posts_per_week |-> ppw]

\* the Monday of week w, counted from 2025-01-13
WeekBase == 12 * MinutesPerDay
WeekStart(w) == WeekBase + w * 7 * MinutesPerDay

Rows(ppw, np, nk, ns, rk) ==
  [company |-> Company(ppw),
   personas |-> SubSeq(PersonaRows, 1, np),
   keywords |-> SubSeq(KeywordRows, 1, nk),
   subreddits |-> SubSeq(SubredditRows, 1, ns),
   recentKeywordIds |-> rk,
   recentSubreddits |-> {}]

\* small plans over every size of the three lists, the empty ones included
Stores ==
  {Rows(ppw, np, nk, ns, rk) :
     ppw \in 0..MaxPostsPerWeek, np \in 0..MaxPersonas,
     nk \in 0..MaxKeywords, ns \in 0..MaxSubreddits, rk \in {{}, {"k1"}}}

\* a seed the caller passes instead of the derived one
ExplicitSeed == 7

\* every posts_per_week around the range 1..14: over the largest lists with
\* the derived seed, over one-element lists with an explicit seed
WideStores ==
  {Rows(ppw, MaxPersonas, MaxKeywords, MaxSubreddits, {}) :
     ppw \in (-1)..MaxWidePosts}
    \cup {[seed |-> ExplicitSeed] @@ Rows(ppw, 1, 1, 1, {}) :
            ppw \in (-1)..MaxWidePosts}

\* the rows with the bio of the last persona matching /dm me/ and /discount/
Pitching(rows) ==
  [rows EXCEPT !.personas[Len(rows.personas)].bio = "DM me for a discount"]

MaxQualityPosts == 5

\* plans of one to MaxQualityPosts posts rotated over one or more personas,
\* with and without a promotional bio
QualityStores ==
  {Rows(ppw, np, 2, 1, {}) : ppw \in 1..MaxQualityPosts, np \in 1..MaxPersonas}
    \cup {Pitching(Rows(ppw, np, 2, 1, {})) :
            ppw \in 1..MaxQualityPosts, np \in 1..MaxPersonas}

InputsFor(st, w) == [weekStart |-> WeekStart(w)] @@ st

MaxSeed == 3

\* what a weight callback may return, in hundredths: negative, zero, the
\* weight of a recent keyword and the full weight
Weights == {-100, 0, 15, 100}

\* the arguments of a call: a list of up to MaxKeywords rows, a weight for
\* each of them, and a count from 0 to one more than the longest list
UtilStores ==
  UNION {[items : {SubSeq(KeywordRows, 1, n)},
          weight : [Range(SubSeq(KeywordRows, 1, n)) -> Weights],
          k : 0..(MaxKeywords + 1),
          seed : 0..MaxSeed] : n \in 0..MaxKeywords}

\* ------------------------------------------------------------------------
\* The plan-creating handlers: POST /api/plans/generate (generate/route.ts)
\* and POST /api/plans (route.ts).  The database is the record db of the
\* company's rows, of the tables plans, posts, comments and quality_reports
\* in insertion order, and of the last id given out; related tells whether
\* posts can be joined to plans in a select (the source's note on step 8).
\* ------------------------------------------------------------------------
\* weekStart.toISOString().slice(0, 10)
WeekDate(t) == [year |-> iso(t).year, month |-> iso(t).month, day |-> iso(t).day]

\* supabase.from(table).insert(rows).select("id"): the rows get the next
\* ids in payload order
Inserted(db, table, rows) ==
  [db EXCEPT ![table] = @ \o [i \in 1..Len(rows) |-> [id |-> db.serial + i] @@ rows[i]],
             !.serial = @ + Len(rows)]

\* variant: the select of step 6 finds nothing
ExistingPlansUnseen(db, date) == {}

\* the plans of the company for that week (step 6)
ExistingPlans(db, date) ==
  {pl \in Range(db.plans) : pl.company_id = db.company.id /\ pl.week_start_date = date}

\* steps 8 and 9: the recent usage and the inputs of the generator.  The
\* limits (40 posts, 30 ids, 10 names) are above what the tables can hold
\* here.
ApiInputs(db, w) ==
  [company |-> db.company, personas |-> db.personas,
   subreddits |-> db.subreddits, keywords |-> db.keywords,
   recentKeywordIds |->
     IF db.related THEN UNION {Range(q.keyword_ids) : q \in Range(db.posts)} ELSE {},
   recentSubreddits |->
     IF db.related THEN {q.subreddit : q \in Range(db.posts)} ELSE {},
   weekStart |-> WeekStart(w)]

\* step 10: generated.posts.map(p => ({plan_id: planId, ...}))
PostRows(posts, planId) ==
  [i \in 1..Len(posts) |-> [plan_id |-> planId, status |-> "planned"] @@ posts[i]]

RECURSIVE Indexed(_, _, _)
\* generated.comments.map((c, idx) => ({c, idx})).filter(x => x.c.post_temp_index === p)
Indexed(comments, p, idx) ==
  IF ~(idx < Len(comments)) THEN <<>>
  ELSE (IF comments[idx + 1].post_temp_index = p
        THEN <<[c |-> comments[idx + 1], idx |-> idx]>> ELSE <<>>)
         \o Indexed(comments, p, idx + 1)

RECURSIVE PlaceByTime(_, _)
\* x goes behind every element that is not later than it: the sort is stable
PlaceByTime(sorted, x) ==
  IF sorted = <<>> THEN <<x>>
  ELSE IF ParseDate(sorted[1].c.scheduled_at) <= ParseDate(x.c.scheduled_at)
  THEN <<sorted[1]>> \o PlaceByTime(Tail(sorted), x)
  ELSE <<x>> \o sorted

RECURSIVE SortByTime(_, _)
\* .sort((a, b) => new Date(a.c.scheduled_at).getTime() - new Date(b.c.scheduled_at).getTime())
SortByTime(items, k) ==
  IF k = 0 THEN <<>> ELSE PlaceByTime(SortByTime(items, k - 1), items[k])

\* parentGlobalIdx === null ? null : insertedCommentIdsByGlobalIndex.get(parentGlobalIdx) ?? null;
\* the nullable column parent_comment_id is written like parent_temp_index
ParentId(map, c) ==
  IF c.parent_temp_index = NoParent THEN NoParent
  ELSE IF c.parent_temp_index[1] \in DOMAIN map THEN ParentAt(map[c.parent_temp_index[1]])
  ELSE NoParent

CommentRow(c, postId, parentId) ==
  [post_id |-> postId, parent_comment_id |-> parentId, comment_text |-> c.comment_text,
   username |-> c.username, scheduled_at |-> c.scheduled_at, status |-> "planned"]

\* new Map()
EmptyMap == <<>>

\* generate/route.ts, lines 304-349: the rows of one post are all built
\* while insertedCommentIdsByGlobalIndex is still empty, then inserted in
\* one call; the map is filled afterwards and dropped with the iteration
BatchInserted(db, items, postId) ==
  Inserted(db, "comments",
           [i \in 1..Len(items) |->
              CommentRow(items[i].c, postId, ParentId(EmptyMap, items[i].c))])

\* insertedCommentIdsByGlobalIndex.set(globalIdx, inserted.id)
Noted(st, item, db) ==
  [db |-> db, map |-> (item.idx :> db.serial) @@ st.map, i |-> st.i + 1]

RECURSIVE EachInserted(_, _, _)
\* route.ts, lines 287-322: one insert per comment, the map filled after each
EachInserted(st, items, postId) ==
  IF st.i > Len(items) THEN st.db
  ELSE EachInserted(
         Noted(st, items[st.i],
               Inserted(st.db, "comments",
                        <<CommentRow(items[st.i].c, postId,
                                     ParentId(st.map, items[st.i].c))>>)),
         items, postId)

\* the comments of post p (0-based), as the route inserts them
ThreadInserted(db, items, postId, route) ==
  IF route = "generate" THEN BatchInserted(db, items, postId)
  ELSE EachInserted([db |-> db, map |-> EmptyMap, i |-> 1], items, postId)

RECURSIVE CommentsInserted(_, _, _, _, _)
\* for (let p = 0; p < generated.posts.length; p++)
CommentsInserted(db, generated, postIds, p, route) ==
  IF ~(p < Len(generated.posts)) THEN db
  ELSE CommentsInserted(
         ThreadInserted(db,
                        SortByTime(Indexed(generated.comments, p, 0),
                                   Len(Indexed(generated.comments, p, 0))),
                        postIds[p + 1], route),
         generated, postIds, p + 1, route)

\* step 12, in generate/route.ts only
QualityInserted(db, generated, planId, route) ==
  IF route = "generate"
  THEN Inserted(db, "quality_reports",
                <<[plan_id |-> planId, score |-> generated.quality.score,
                   flags |-> generated.quality.flags, notes |-> generated.quality.notes]>>)
  ELSE db

\* what a request leaves: the database, the response, what the generator
\* returned, postIdByTempIndex and the state of the abandoned closure
Answer(db, res, out, postIds, s) ==
  [db |-> db, res |-> res, out |-> out, postIds |-> postIds, s |-> s]

\* steps 10 to 12 and the response, on the database db that holds the posts
Stored(db, planId, w, r, postIds, route) ==
  Answer(QualityInserted(CommentsInserted(db, r.out, postIds, 0, route),
                         r.out, planId, route),
         [status |-> 200, success |-> TRUE, reused |-> FALSE, planId |-> planId,
          weekStart |-> WeekDate(WeekStart(w)),
          counts |-> [posts |-> Len(r.out.posts), comments |-> Len(r.out.comments)]],
         r.out, postIds, r.s)

\* steps 9 to 12 for the result r of the generator; a throw of the
\* generator is not caught and the request ends in a 500
Persisted(db, planId, w, r, route) ==
  IF r.out = TypeError
  THEN Answer(db, [status |-> 500], TypeError, <<>>, r.s)
  ELSE Stored(Inserted(db, "posts", PostRows(r.out.posts, planId)), planId, w, r,
              [i \in 1..Len(r.out.posts) |-> db.serial + i], route)

\* steps 7 to 12, on the database db that holds the new plan row
Created(db, w, s, route) ==
  Persisted(db, db.serial, w, generateWeekPlan(ApiInputs(db, w), s), route)

\* one request for the week w
Handle(db, w, s, route) ==
  IF Len(db.personas) < 2
  THEN Answer(db, [status |-> 400, step |-> "not_enough_personas"], Null, <<>>, s)
  ELSE IF Len(db.subreddits) < 1
  THEN Answer(db, [status |-> 400, step |-> "no_subreddits"], Null, <<>>, s)
  ELSE IF Len(db.keywords) < 1
  THEN Answer(db, [status |-> 400, step |-> "no_keywords"], Null, <<>>, s)
  ELSE IF ExistingPlans(db, WeekDate(WeekStart(w))) # {}
  THEN Answer(db, [status |-> 200, success |-> TRUE, reused |-> TRUE,
                   planId |-> (CHOOSE pl \in ExistingPlans(db, WeekDate(WeekStart(w))) : TRUE).id,
                   weekStart |-> WeekDate(WeekStart(w))], Null, <<>>, s)
  ELSE Created(Inserted(db, "plans",
                        <<[company_id |-> db.company.id,
                           week_start_date |-> WeekDate(WeekStart(w))]>>),
               w, s, route)

\* ------------------------------------------------------------------------
\* POST /api/plans/generate when the database answers one of the inserts
\* that follow the plan row with an error.
\* ------------------------------------------------------------------------
\* the statement that is refused; "none": every statement is carried out
Failures == {"none", "insert_posts", "insert_comments", "insert_quality_report"}

\* return NextResponse.json({ error: { step, ... } }, { status: 500 })
Failed(db, step, s) == Answer(db, [status |-> 500, step |-> step], Null, <<>>, s)

\* steps 11 and 12 on the database that holds the posts; comments are
\* refused at the first insert of the loop
StoredFailing(db, planId, w, r, postIds, fail) ==
  IF fail = "insert_comments" THEN Failed(db, fail, r.s)
  ELSE IF fail = "insert_quality_report"
  THEN Failed(CommentsInserted(db, r.out, postIds, 0, "generate"), fail, r.s)
  ELSE Stored(db, planId, w, r, postIds, "generate")

\* steps 9 and 10: if (insertPostsError || !insertedPosts) return ...
PersistedFailing(db, planId, w, r, fail) ==
  IF r.out = TypeError THEN Answer(db, [status |-> 500], TypeError, <<>>, r.s)
  ELSE IF fail = "insert_posts" THEN Failed(db, fail, r.s)
  ELSE StoredFailing(Inserted(db, "posts", PostRows(r.out.posts, planId)), planId, w, r,
                     [i \in 1..Len(r.out.posts) |-> db.serial + i], fail)

\* steps 7 to 12, on the database db that holds the new plan row
CreatedFailing(db, w, s, fail) ==
  PersistedFailing(db, db.serial, w, generateWeekPlan(ApiInputs(db, w), s), fail)

\* the request passes steps 3 to 6 and reaches the insert of the plan row
Creates(db, w) ==
  /\ Len(db.personas) >= 2
  /\ Len(db.subreddits) >= 1
  /\ Len(db.keywords) >= 1
  /\ ExistingPlans(db, WeekDate(WeekStart(w))) = {}

\* one request for the week w
HandleFailing(db, w, s, fail) ==
  IF Creates(db, w)
  THEN CreatedFailing(Inserted(db, "plans",
                               <<[company_id |-> db.company.id,
                                  week_start_date |-> WeekDate(WeekStart(w))]>>),
                      w, s, fail)
  ELSE Handle(db, w, s, "generate")

\* ------------------------------------------------------------------------
\* The dashboard (page.tsx): generatePlan("next").  Weeks are counted like
\* the argument of WeekStart; now is the week of new Date(), on the client
\* and on the server, both taken in UTC.
\* ------------------------------------------------------------------------
\* const SAFETY_LIMIT = 1000
SAFETY_LIMIT == 1000

\* body: JSON.stringify({ weekStart })
NextBody(candidate) == [weekStart |-> candidate]

\* body.weekStartISO ? new Date(body.weekStartISO) : startOfWeekISO(new Date())
RequestWeek(body, now) ==
  IF "weekStartISO" \in DOMAIN body THEN body.weekStartISO ELSE now

\* what generatePlan leaves behind the loop for the latest response h:
\* createdPlanId (empty for null) and whether an Error is thrown
Ended(h, candidate, now, createdPlanId, error) ==
  [db |-> h.db, s |-> h.s, res |-> h.res, out |-> h.out, postIds |-> h.postIds,
   asked |-> candidate, week |-> RequestWeek(NextBody(candidate), now),
   createdPlanId |-> createdPlanId, error |-> error]

RECURSIVE NextLoop(_, _, _, _, _)
\* one turn of while (true) on the response h
Turned(h, candidate, now, attempts) ==
  IF h.res.status # 200
  THEN IF h.res.status = 409
       THEN IF attempts + 1 >= SAFETY_LIMIT
            THEN Ended(h, candidate, now, <<>>, TRUE)
            ELSE NextLoop(h.db, h.s, candidate + 1, now, attempts + 1)
       ELSE Ended(h, candidate, now, <<>>, TRUE)
  ELSE IF "planId" \in DOMAIN h.res
  THEN Ended(h, candidate, now, <<h.res.planId>>, FALSE)
  ELSE IF attempts + 2 >= SAFETY_LIMIT
  THEN Ended(h, candidate, now, <<>>, TRUE)
  ELSE NextLoop(h.db, h.s, candidate + 2, now, attempts + 2)

\* while (true) { const res = await fetch("/api/plans/generate", ...) ... }
NextLoop(db, s, candidate, now, attempts) ==
  Turned(Handle(db, RequestWeek(NextBody(candidate), now), s, "generate"),
         candidate, now, attempts)

\* the company's rows with empty tables
Database(ppw, np, nk, ns, related) ==
  [company |-> Company(ppw),
   personas |-> SubSeq(PersonaRows, 1, np),
   keywords |-> SubSeq(KeywordRows, 1, nk),
   subreddits |-> SubSeq(SubredditRows, 1, ns),
   related |-> related,
   plans |-> <<>>, posts |-> <<>>, comments |-> <<>>, quality_reports |-> <<>>,
   serial |-> 0]

ApiStores ==
  {Database(ppw, np, nk, ns, related) :
     ppw \in 1..MaxPostsPerWeek, np \in 1..MaxPersonas,
     nk \in 0..MaxKeywords, ns \in 0..MaxSubreddits, related \in BOOLEAN}

\* ------------------------------------------------------------------------
\* State
\* ------------------------------------------------------------------------
VARIABLES
  store,      \* the rows the caller passes on every call
  rngState,   \* where the closure of the latest call was left
  last,       \* [inputs, out] of the latest call of generateWeekPlan
  prev,       \* [inputs, out] of the call before it
  calls       \* number of calls made

vars == <<store, rngState, last, prev, calls>>

NoCall == [none |-> TRUE]

Idle ==
  /\ rngState = Word(0)
  /\ last = NoCall
  /\ prev = NoCall
  /\ calls = 0

Init == store \in Stores /\ Idle

InitWide == store \in WideStores /\ Idle

\* the caller runs generateWeekPlan for week w
Generate(w) ==
  LET inputs == InputsFor(store, w)
      r      == generateWeekPlan(inputs, rngState)
  IN  /\ calls < MaxCalls
      /\ last' = [inputs |-> inputs, out |-> r.out, nComments |-> r.nComments]
      /\ prev' = last
      /\ rngState' = r.s
      /\ calls' = calls + 1
      /\ UNCHANGED store

Next == \E w \in 0..MaxWeek : Generate(w)

Spec == Init /\ [][Next]_vars

SpecWide == InitWide /\ [][Next]_vars

InitQuality == store \in QualityStores /\ Idle
SpecQuality == InitQuality /\ [][Next]_vars

\* The sampling primitives called on their own: store holds the arguments
\* and the seed of the closure, last the call and what it returned.
InitUtil ==
  /\ store \in UtilStores
  /\ rngState = mulberry32(store.seed)
  /\ last = NoCall /\ prev = NoCall /\ calls = 0

Applied(op, out, s) ==
  /\ calls < MaxCalls
  /\ last' = [op |-> op, inputs |-> store, out |-> out]
  /\ prev' = last
  /\ rngState' = s
  /\ calls' = calls + 1
  /\ UNCHANGED store

Sample ==
  LET r == weightedSampleUnique(rngState, store.items, store.weight, store.k)
  IN  Applied("weightedSampleUnique", [v |-> r.v, items |-> r.items], r.s)

PickOne ==
  LET r == pickOne(rngState, store.items)
  IN  Applied("pickOne", r.v, r.s)

NextUtil == Sample \/ PickOne
SpecUtil == InitUtil /\ [][NextUtil]_vars

\* The handlers called one after the other: store is the database, last
\* the request and what it left.
InitApi == store \in ApiStores /\ Idle

Handled(route, w, h) ==
  /\ calls < MaxCalls
  /\ store' = h.db
  /\ last' = [route |-> route, week |-> w, res |-> h.res, out |-> h.out,
              postIds |-> h.postIds]
  /\ prev' = last
  /\ rngState' = h.s
  /\ calls' = calls + 1

PostGenerate(w) == Handled("generate", w, Handle(store, w, rngState, "generate"))

PostPlans(w) == Handled("plans", w, Handle(store, w, rngState, "plans"))

NextApi == \E w \in 0..MaxWeek : PostGenerate(w) \/ PostPlans(w)
SpecApi == InitApi /\ [][NextApi]_vars

\* POST /api/plans/generate with a database that may refuse an insert
PostGenerateFailing(w, fail) ==
  Handled("generate", w, HandleFailing(store, w, rngState, fail))

NextFailing == \E w \in 0..MaxWeek, fail \in Failures : PostGenerateFailing(w, fail)
SpecFailing == InitApi /\ [][NextFailing]_vars

\* Two requests POST /api/plans/generate for one week that run at the same
\* time: every await of the handler is a point where the other request can
\* run.  last holds, for each request, where it stands and its response.
Requests == {1, 2}

InitRace ==
  /\ store \in ApiStores
  /\ rngState = Word(0)
  /\ \E w \in 0..MaxWeek : last = [i \in Requests |-> [pc |-> "check", week |-> w]]
  /\ prev = NoCall
  /\ calls = 0

\* steps 3 to 6: the guards and the select of the existing plan
Check(i) ==
  /\ last[i].pc = "check"
  /\ last' = [last EXCEPT ![i] =
                IF Creates(store, @.week)
                THEN [pc |-> "insert", week |-> @.week]
                ELSE [pc |-> "done", week |-> @.week,
                      res |-> Handle(store, @.week, rngState, "generate").res]]
  /\ UNCHANGED <<store, rngState, prev, calls>>

\* step 7: the insert of the plan row, which the unique constraint on
\* (company_id, week_start_date) refuses when the week has a row
InsertPlan(i) ==
  /\ last[i].pc = "insert"
  /\ IF ExistingPlans(store, WeekDate(WeekStart(last[i].week))) # {}
     THEN /\ last' = [last EXCEPT ![i] =
                        [pc |-> "done", week |-> @.week,
                         res |-> [status |-> 500, step |-> "insert_plan"]]]
          /\ UNCHANGED store
     ELSE /\ store' = Inserted(store, "plans",
                                <<[company_id |-> store.company.id,
                                   week_start_date |-> WeekDate(WeekStart(last[i].week))]>>)
          /\ last' = [last EXCEPT ![i] =
                        [pc |-> "persist", week |-> @.week, planId |-> store.serial + 1]]
  /\ UNCHANGED <<rngState, prev, calls>>

\* the request i ends with what h leaves
Finished(i, h) ==
  /\ store' = h.db
  /\ last' = [last EXCEPT ![i] = [pc |-> "done", week |-> @.week, res |-> h.res]]
  /\ rngState' = h.s
  /\ calls' = calls + 1
  /\ UNCHANGED prev

\* steps 8 to 12, in one step: only the request that inserted the plan
\* row gets here, and no other request writes rows of its plan
Persist(i) ==
  /\ last[i].pc = "persist"
  /\ Finished(i, Persisted(store, last[i].planId, last[i].week,
                           generateWeekPlan(ApiInputs(store, last[i].week), rngState),
                           "generate"))

NextRace == \E i \in Requests : Check(i) \/ InsertPlan(i) \/ Persist(i)
SpecRace == InitRace /\ [][NextRace]_vars

\* The dashboard in front of POST /api/plans/generate: one click on
\* "next week" in the week now, candidate starting at nextWeekStart.
Clicked(now, r) ==
  /\ calls < MaxCalls
  /\ store' = r.db
  /\ last' = [route |-> "dashboard", now |-> now, asked |-> r.asked, week |-> r.week,
              res |-> r.res, out |-> r.out, postIds |-> r.postIds,
              createdPlanId |-> r.createdPlanId, error |-> r.error]
  /\ prev' = last
  /\ rngState' = r.s
  /\ calls' = calls + 1

GenerateNext(now) == Clicked(now, NextLoop(store, rngState, now + 1, now, 0))

NextDashboard == \E w \in 0..MaxWeek : PostGenerate(w) \/ GenerateNext(w)
SpecDashboard == InitApi /\ [][NextDashboard]_vars

\* ------------------------------------------------------------------------
\* Properties
\* ------------------------------------------------------------------------
Returned(c) == c # NoCall /\ c.out # TypeError

AllListsNonEmpty(inputs) ==
  inputs.keywords # <<>> /\ inputs.personas # <<>> /\ inputs.subreddits # <<>>

\* C1: with non-empty keywords, personas and venues, a call returns exactly
\* clamp(posts_per_week, 1, 14) posts: 14 for a value >= 14, 1 for a value
\* <= 1, the value itself otherwise.
C1_PostCountIsClamped ==
  (last # NoCall /\ AllListsNonEmpty(last.inputs)) =>
     /\ last.out # TypeError
     /\ Len(last.out.posts) =
          (LET n == last.inputs.company.posts_per_week
           IN  IF n >= 14 THEN 14 ELSE IF n <= 1 THEN 1 ELSE n)

C1_Witness ==
  /\ Returned(last)
  /\ AllListsNonEmpty(last.inputs)
  /\ last.inputs.company.posts_per_week > 14
  /\ Len(last.out.posts) = 14

\* C2: with an empty keyword list the call throws and returns no result,
\* whatever the other inputs are.
C2_EmptyKeywordsThrow ==
  (last # NoCall /\ last.inputs.keywords = <<>>) => last.out = TypeError

C2_Witness ==
  /\ last # NoCall
  /\ last.inputs.keywords = <<>>
  /\ last.inputs.personas # <<>>
  /\ last.inputs.subreddits # <<>>
  /\ last.out = TypeError

\* C3: with an empty persona list (keywords and venues non-empty) the call
\* completes without throwing and returns at least one post.
C3_EmptyPersonasStillPlan ==
  (/\ last # NoCall
   /\ last.inputs.personas = <<>>
   /\ last.inputs.keywords # <<>>
   /\ last.inputs.subreddits # <<>>)
    => (last.out # TypeError /\ Len(last.out.posts) >= 1)

\* C4: with an empty venue list (keywords and personas non-empty) the call
\* does not fail: it returns a result instead of throwing.
C4_EmptyVenuesStillPlan ==
  (/\ last # NoCall
   /\ last.inputs.subreddits = <<>>
   /\ last.inputs.keywords # <<>>
   /\ last.inputs.personas # <<>>)
    => last.out # TypeError

Titles(out) == [i \in 1..Len(out.posts) |-> out.posts[i].title]

\* the latest two calls returned and differ in weekStart only, without an
\* explicit seed
OnlyWeekDiffers ==
  /\ Returned(last)
  /\ Returned(prev)
  /\ "seed" \notin DOMAIN last.inputs
  /\ last.inputs.weekStart # prev.inputs.weekStart
  /\ [last.inputs EXCEPT !.weekStart = prev.inputs.weekStart] = prev.inputs

C7_ThreadsWellFormed ==
  Returned(last) =>
    \A i \in 1..Len(last.out.comments) :
      LET c == last.out.comments[i]
      IN  c.parent_temp_index # NoParent =>
            /\ c.parent_temp_index[1] >= 0
            /\ c.parent_temp_index[1] < i - 1
            /\ last.out.comments[c.parent_temp_index[1] + 1].post_temp_index
                 = c.post_temp_index

C7_Witness ==
  /\ Returned(last)
  /\ \E i \in 1..Len(last.out.comments) :
       /\ last.out.comments[i].post_temp_index = 1
       /\ last.out.comments[i].parent_temp_index # NoParent
       /\ last.out.comments[i].parent_temp_index[1] > 0

DistinctUsernames(personas) ==
  \A i, j \in 1..Len(personas) : i # j => personas[i].username # personas[j].username

\* the first top-level comment of post p (0-based) in the comment list
FirstTopLevel(out, p) ==
  LET idx == {i \in 1..Len(out.comments) :
                /\ out.comments[i].post_temp_index = p
                /\ out.comments[i].parent_temp_index = NoParent}
  IN  out.comments[CHOOSE i \in idx : \A k \in idx : i <= k]

FirstCommenterIsNotAuthor(out) ==
  \A p \in 0..(Len(out.posts) - 1) :
     FirstTopLevel(out, p).username # out.posts[p + 1].author_username

\* C8 (as claimed): for every non-empty persona list with distinct
\* usernames, one persona included, the first top-level comment of every
\* post is by someone other than the post's author.
C8_FirstCommenterNeverAuthor ==
  (/\ Returned(last)
   /\ Len(last.inputs.personas) >= 1
   /\ DistinctUsernames(last.inputs.personas))
    => FirstCommenterIsNotAuthor(last.out)

\* C8 (amended): for every persona list of at least two personas with
\* distinct usernames, the first top-level comment of every post is by
\* someone other than the post's author.
C8_FirstCommenterNotAuthorOfTwo ==
  (/\ Returned(last)
   /\ Len(last.inputs.personas) >= 2
   /\ DistinctUsernames(last.inputs.personas))
    => FirstCommenterIsNotAuthor(last.out)

C8_Witness ==
  /\ Returned(last)
  /\ Len(last.inputs.personas) = 2
  /\ Len(last.out.posts) = 2
  /\ FirstCommenterIsNotAuthor(last.out)

DistinctIds(keywords) ==
  \A i, j \in 1..Len(keywords) : i # j => keywords[i].id # keywords[j].id

\* C9: with distinct keyword ids, every post's keyword_ids has 1 to 3
\* entries, starts with the post's primary keyword (the one its title is
\* written for), has no repeated entry and holds only ids of the input.
C9_KeywordIdsWellFormed ==
  (Returned(last) /\ DistinctIds(last.inputs.keywords)) =>
    \A p \in 1..Len(last.out.posts) :
      LET ids == last.out.posts[p].keyword_ids
      IN  /\ Len(ids) >= 1 /\ Len(ids) <= 3
          /\ \A i \in 1..Len(ids) :
               ids[i] \in {k.id : k \in Range(last.inputs.keywords)}
          /\ Find(last.inputs.keywords, ids[1]).phrase = last.out.posts[p].title.k
          /\ \A i, j \in 1..Len(ids) : i # j => ids[i] # ids[j]

C9_Witness ==
  /\ Returned(last)
  /\ \E p \in 1..Len(last.out.posts) : Len(last.out.posts[p].keyword_ids) = 3
  /\ \E p \in 1..Len(last.out.posts) : Len(last.out.posts[p].keyword_ids) = 2

\* minutes from weekStart to the scheduled time of a post
Offset(post, inputs) == ParseDate(post.scheduled_at) - inputs.weekStart

\* C10: every post is scheduled at weekStart + d days + m minutes with d in
\* 0..6, m a multiple of 5 and 16 * 60 <= m < 23 * 60, so inside the week
\* that starts at weekStart.
C10_PostsInsideWindow ==
  Returned(last) =>
    \A p \in 1..Len(last.out.posts) :
      LET off == Offset(last.out.posts[p], last.inputs)
          d   == off \div MinutesPerDay
          m   == off % MinutesPerDay
      IN  /\ off >= 0
          /\ d \in 0..6
          /\ m % 5 = 0
          /\ 16 * 60 <= m /\ m < 23 * 60
          /\ off < 7 * MinutesPerDay

C10_Witness ==
  /\ Returned(last)
  /\ last.inputs.weekStart % MinutesPerDay = 0
  /\ \E p \in 1..Len(last.out.posts) :
       /\ Offset(last.out.posts[p], last.inputs) \div MinutesPerDay = 6
       /\ Offset(last.out.posts[p], last.inputs) % MinutesPerDay >= 22 * 60

\* the positions in the comment list of the comments of post p (0-based)
ThreadIdx(out, p) ==
  {i \in 1..Len(out.comments) : out.comments[i].post_temp_index = p}

CommentTime(out, i) == ParseDate(out.comments[i].scheduled_at)

\* C11: within each post's thread the comments, in output order, have
\* strictly increasing scheduled_at, and every comment of the thread, the
\* first one included, is at least 25 minutes later than the post.
C11_ThreadTimesIncrease ==
  Returned(last) =>
    \A p \in 0..(Len(last.out.posts) - 1) :
      /\ \A i, j \in ThreadIdx(last.out, p) :
           i < j => CommentTime(last.out, i) < CommentTime(last.out, j)
      /\ \A i \in ThreadIdx(last.out, p) :
           CommentTime(last.out, i)
             >= ParseDate(last.out.posts[p + 1].scheduled_at) + 25

C11_Witness ==
  /\ Returned(last)
  /\ \E p \in 0..(Len(last.out.posts) - 1) :
       /\ Cardinality(ThreadIdx(last.out, p)) = 4
       /\ \E i \in ThreadIdx(last.out, p) :
            CommentTime(last.out, i)
              > ParseDate(last.out.posts[p + 1].scheduled_at) + 120

\* C12: with non-empty keywords, personas and venues every post of a
\* returned plan has at least 2 and at most 4 comments.
C12_TwoToFourComments ==
  (last # NoCall /\ AllListsNonEmpty(last.inputs)) =>
    /\ last.out # TypeError
    /\ \A p \in 0..(Len(last.out.posts) - 1) :
         Cardinality(ThreadIdx(last.out, p)) \in 2..4

C12_Witness ==
  /\ Returned(last)
  /\ AllListsNonEmpty(last.inputs)
  /\ \E p \in 0..(Len(last.out.posts) - 1) : Cardinality(ThreadIdx(last.out, p)) = 2
  /\ \E p \in 0..(Len(last.out.posts) - 1) : Cardinality(ThreadIdx(last.out, p)) = 4

Flags(c) == c.out.quality.flags

Penalty(flag, points) == IF flag THEN points ELSE 0

\* C13: the score of a returned plan is 9 - 2 * [single_persona_dominates]
\* - 3 * [salesy_language] - 1 * [too_many_op_replies] brought into 0..10,
\* an integer between 0 and 10.
C13_ScoreFromFlags ==
  Returned(last) =>
    LET raw == 9 - Penalty(Flags(last).single_persona_dominates, 2)
                 - Penalty(Flags(last).salesy_language, 3)
                 - Penalty(Flags(last).too_many_op_replies, 1)
    IN  /\ last.out.quality.score \in 0..10
        /\ last.out.quality.score
             = (IF raw < 0 THEN 0 ELSE IF raw > 10 THEN 10 ELSE raw)

C13_Witness ==
  /\ Returned(last)
  /\ Flags(last).single_persona_dominates
  /\ Flags(last).salesy_language
  /\ Flags(last).too_many_op_replies
  /\ last.out.quality.score = 3

\* the number of posts of the plan written by username u
PostsBy(out, u) ==
  Cardinality({p \in 1..Len(out.posts) : out.posts[p].author_username = u})

\* C14: single_persona_dominates is set exactly when some author wrote more
\* than 60% of the posts (5 * count > 3 * postCount); a share of exactly 60%
\* does not set it.
C14_DominatesAboveSixtyPercent ==
  Returned(last) =>
    (Flags(last).single_persona_dominates
       <=> \E p \in 1..Len(last.out.posts) :
             5 * PostsBy(last.out, last.out.posts[p].author_username)
               > 3 * Len(last.out.posts))

C14_Witness ==
  /\ Returned(last)
  /\ Len(last.out.posts) = 5
  /\ \E p \in 1..5 : PostsBy(last.out, last.out.posts[p].author_username) = 3
  /\ ~Flags(last).single_persona_dominates

\* the comments written by the author of the post they belong to
OwnComments(out) ==
  {i \in 1..Len(out.comments) :
     out.comments[i].username
       = out.posts[out.comments[i].post_temp_index + 1].author_username}

\* C15: too_many_op_replies is set exactly when the number of comments by
\* the author of their own post, divided by the number of posts, is above
\* 1.2 (5 * count > 6 * postCount).
C15_OpRepliesAboveRatio ==
  Returned(last) =>
    (Flags(last).too_many_op_replies
       <=> 5 * Cardinality(OwnComments(last.out)) > 6 * Len(last.out.posts))

C15_Witness ==
  /\ Returned(last)
  /\ Flags(last).too_many_op_replies
  /\ Cardinality(OwnComments(last.out)) >= 2 * Len(last.out.posts)
  /\ Len(last.out.posts) > 1

\* the primary keyword of each post
PrimaryIds(out) == [p \in 1..Len(out.posts) |-> out.posts[p].keyword_ids[1]]

\* C16: whatever recentKeywordIds holds, the primary keywords of the first
\* min(postCount, |keywords|) posts are pairwise distinct keywords of the
\* input, and when |keywords| <= postCount every keyword, a recent one
\* included, is the primary keyword of some post.
C16_RecentKeywordsStillUsed ==
  (Returned(last) /\ DistinctIds(last.inputs.keywords)) =>
    LET primary == PrimaryIds(last.out)
        n       == Min(Len(last.out.posts), Len(last.inputs.keywords))
    IN  /\ \A i, j \in 1..n : i # j => primary[i] # primary[j]
        /\ \A i \in 1..n : primary[i] \in {k.id : k \in Range(last.inputs.keywords)}
        /\ Len(last.inputs.keywords) <= Len(last.out.posts) =>
             \A k \in Range(last.inputs.keywords) :
               \E p \in 1..Len(last.out.posts) :
                 /\ primary[p] = k.id
                 /\ k.id \in Range(last.out.posts[p].keyword_ids)

C16_Witness ==
  /\ Returned(last)
  /\ last.inputs.recentKeywordIds = {"k1"}
  /\ Len(last.inputs.keywords) = 2
  /\ Len(last.out.posts) = 2
  /\ "k1" \in Range(PrimaryIds(last.out))

\* C17: weightedSampleUnique(rng, items, weight, k) returns exactly
\* min(k, |items|) pairwise distinct elements of items for every weight
\* callback, zero and negative weights included, and the items array is
\* afterwards what it was.
C17_SampleSizeAndDistinct ==
  (last # NoCall /\ last.op = "weightedSampleUnique") =>
    /\ Len(last.out.v) = Min(last.inputs.k, Len(last.inputs.items))
    /\ \A i, j \in 1..Len(last.out.v) : i # j => last.out.v[i] # last.out.v[j]
    /\ Range(last.out.v) \subseteq Range(last.inputs.items)
    /\ last.out.items = last.inputs.items

C17_Witness ==
  /\ last # NoCall
  /\ last.op = "weightedSampleUnique"
  /\ Len(last.inputs.items) = 3
  /\ \A it \in Range(last.inputs.items) : last.inputs.weight[it] <= 0
  /\ last.inputs.k > 3
  /\ Len(last.out.v) = 3

\* C18 (as claimed): pickOne on an empty list fails with an error and
\* returns nothing; on a non-empty list it returns an element of the list.
C18_PickOneEmptyFails ==
  (last # NoCall /\ last.op = "pickOne") =>
    IF last.inputs.items = <<>>
    THEN ~Returned(last)
    ELSE last.out \in Range(last.inputs.items)

\* C20: with a non-empty list of personas of distinct usernames, the post
\* authors cycle through one ordering of the personas (post i and post
\* i + personaCount have the same author, the first personaCount authors
\* are pairwise distinct), so the numbers of posts of any two personas
\* differ by at most 1, and with postCount <= personaCount all authors are
\* pairwise distinct.
C20_AuthorsRotate ==
  (/\ Returned(last)
   /\ last.inputs.personas # <<>>
   /\ DistinctUsernames(last.inputs.personas)) =>
    LET posts == last.out.posts
        n     == Len(last.inputs.personas)
        names == {q.username : q \in Range(last.inputs.personas)}
    IN  /\ \A p \in 1..Len(posts) : posts[p].author_username \in names
        /\ \A p \in 1..(Len(posts) - n) :
             posts[p].author_username = posts[p + n].author_username
        /\ \A i, j \in 1..Min(n, Len(posts)) :
             i # j => posts[i].author_username # posts[j].author_username
        /\ \A a, b \in names : PostsBy(last.out, a) - PostsBy(last.out, b) <= 1
        /\ Len(posts) <= n =>
             \A i, j \in 1..Len(posts) :
               i # j => posts[i].author_username # posts[j].author_username

C20_Witness ==
  /\ Returned(last)
  /\ Len(last.inputs.personas) = 3
  /\ Len(last.out.posts) = 5
  /\ last.out.posts[1].author_username = last.out.posts[4].author_username
  /\ last.out.posts[1].author_username # PersonaRows[1].username

\* a request that created a plan
CreatedPlan(c) == c # NoCall /\ c.res.status = 200 /\ ~c.res.reused

\* the row that generated comment i (global index, 0-based) was stored as:
\* within a thread the scheduled times are distinct
CommentRowOf(db, c, i) ==
  CHOOSE row \in Range(db.comments) :
    /\ row.post_id = c.postIds[c.out.comments[i + 1].post_temp_index + 1]
    /\ row.scheduled_at = c.out.comments[i + 1].scheduled_at
    /\ row.username = c.out.comments[i + 1].username
    /\ row.comment_text = c.out.comments[i + 1].comment_text

RepliesKeepParent(db, c) ==
  \A i \in 0..(Len(c.out.comments) - 1) :
    c.out.comments[i + 1].parent_temp_index # NoParent =>
      /\ CommentRowOf(db, c, i).parent_comment_id
           = ParentAt(CommentRowOf(db, c, c.out.comments[i + 1].parent_temp_index[1]).id)
      /\ CommentRowOf(db, c, c.out.comments[i + 1].parent_temp_index[1]).id
           < CommentRowOf(db, c, i).id

\* C19 (as claimed): in both handlers every generated reply is stored with
\* parent_comment_id equal to the id given to the row of its generated
\* parent, which was inserted before it; no reply is stored with a null or
\* wrong parent.
C19_RepliesKeepParent ==
  CreatedPlan(last) => RepliesKeepParent(store, last)

\* the first comment of the thread of post p, as a position in the list
FirstOfThread(out, p) ==
  CHOOSE i \in ThreadIdx(out, p) : \A k \in ThreadIdx(out, p) : i <= k

\* C21: the first comment of every thread is top-level, every comment of
\* the thread that has a parent has that first comment as its parent, and
\* the OP reply is by the post's author with the first comment as parent.
C21_SingleReplyAnchor ==
  Returned(last) =>
    \A p \in 0..(Len(last.out.posts) - 1) :
      /\ ThreadIdx(last.out, p) # {}
      /\ last.out.comments[FirstOfThread(last.out, p)].parent_temp_index = <<>>
      /\ \A i \in ThreadIdx(last.out, p) :
           /\ last.out.comments[i].parent_temp_index # <<>> =>
                last.out.comments[i].parent_temp_index
                  = <<FirstOfThread(last.out, p) - 1>>
           /\ last.out.comments[i].comment_text = OpReplyText =>
                /\ last.out.comments[i].username = last.out.posts[p + 1].author_username
                /\ last.out.comments[i].parent_temp_index
                     = <<FirstOfThread(last.out, p) - 1>>

C21_Witness ==
  /\ Returned(last)
  /\ Len(last.out.posts) = 2
  /\ Cardinality(ThreadIdx(last.out, 1)) = 4
  /\ \E i \in ThreadIdx(last.out, 1) : last.out.comments[i].comment_text = OpReplyText
  /\ FirstOfThread(last.out, 1) > 3

\* the day of the week a post is scheduled on, 0 for the day of weekStart
DayOf(post, inputs) == Offset(post, inputs) \div MinutesPerDay

\* C22: the days of the posts are non-decreasing in array position.
C22_DaysNonDecreasing ==
  Returned(last) =>
    \A i, j \in 1..Len(last.out.posts) :
      i < j => DayOf(last.out.posts[i], last.inputs) <= DayOf(last.out.posts[j], last.inputs)

C22_Witness ==
  /\ Returned(last)
  /\ Len(last.out.posts) >= 5
  /\ DayOf(last.out.posts[1], last.inputs)
       < DayOf(last.out.posts[Len(last.out.posts)], last.inputs)
  /\ \E i \in 1..(Len(last.out.posts) - 1) :
       /\ DayOf(last.out.posts[i], last.inputs) = DayOf(last.out.posts[i + 1], last.inputs)
       /\ Offset(last.out.posts[i], last.inputs) > Offset(last.out.posts[i + 1], last.inputs)

HasOpReply(out, p) ==
  \E i \in ThreadIdx(out, p) : out.comments[i].comment_text = OpReplyText

\* C27 (as claimed): the number of comments of a post is the value drawn
\* for nComments in its iteration.
C27_CountIsTarget ==
  Returned(last) =>
    \A p \in 0..(Len(last.out.posts) - 1) :
      Cardinality(ThreadIdx(last.out, p)) = last.nComments[p + 1]

\* C27 (amended): nComments is 2, 3 or 4, and the number of comments of a
\* post is 2, plus 1 when the OP reply is written, plus 1 when nComments
\* is 4.
C27_CountFromReplyAndTarget ==
  Returned(last) =>
    \A p \in 0..(Len(last.out.posts) - 1) :
      /\ last.nComments[p + 1] \in {2, 3, 4}
      /\ Cardinality(ThreadIdx(last.out, p))
           = 2 + (IF HasOpReply(last.out, p) THEN 1 ELSE 0)
               + (IF last.nComments[p + 1] = 4 THEN 1 ELSE 0)

C27_Witness ==
  /\ Returned(last)
  /\ Len(last.out.posts) = 2
  /\ last.nComments[1] = 2
  /\ Cardinality(ThreadIdx(last.out, 0)) = 3
  /\ last.nComments[2] = 3
  /\ Cardinality(ThreadIdx(last.out, 1)) = 2

\* C28 (as claimed): with weekStart at 00:00 UTC every comment is scheduled
\* inside [weekStart, weekStart + 7 days).
C28_CommentsInsideWeek ==
  (Returned(last) /\ last.inputs.weekStart % MinutesPerDay = 0) =>
    \A i \in 1..Len(last.out.comments) :
      /\ CommentTime(last.out, i) >= last.inputs.weekStart
      /\ CommentTime(last.out, i) < last.inputs.weekStart + 7 * MinutesPerDay

\* C28 (amended): with weekStart at 00:00 UTC every comment is scheduled 25
\* to 240 minutes after its post, so inside [weekStart, weekStart + 7 days
\* + 3 hours); a comment lies in the following week only when its post is
\* scheduled on the last day of the week at 20:00 or later.
C28_CommentsFollowPost ==
  (Returned(last) /\ last.inputs.weekStart % MinutesPerDay = 0) =>
    \A i \in 1..Len(last.out.comments) :
      LET post == last.out.posts[last.out.comments[i].post_temp_index + 1]
      IN  /\ CommentTime(last.out, i) >= ParseDate(post.scheduled_at) + 25
          /\ CommentTime(last.out, i) <= ParseDate(post.scheduled_at) + 240
          /\ CommentTime(last.out, i) >= last.inputs.weekStart
          /\ CommentTime(last.out, i) < last.inputs.weekStart + 7 * MinutesPerDay + 180
          /\ CommentTime(last.out, i) >= last.inputs.weekStart + 7 * MinutesPerDay =>
               /\ DayOf(post, last.inputs) = 6
               /\ Offset(post, last.inputs) % MinutesPerDay >= 20 * 60

C28_Witness ==
  /\ Returned(last)
  /\ last.inputs.weekStart % MinutesPerDay = 0
  /\ \E i \in 1..Len(last.out.comments) :
       CommentTime(last.out, i) >= last.inputs.weekStart + 7 * MinutesPerDay

\* C29: with two or more personas of distinct usernames the author of a
\* post writes at most one comment of its thread, the OP reply, and
\* too_many_op_replies is not set.
C29_AuthorOnlyReplies ==
  (/\ Returned(last)
   /\ Len(last.inputs.personas) >= 2
   /\ DistinctUsernames(last.inputs.personas)) =>
    /\ \A i \in OwnComments(last.out) : last.out.comments[i].comment_text = OpReplyText
    /\ \A p \in 0..(Len(last.out.posts) - 1) :
         Cardinality(OwnComments(last.out) \cap ThreadIdx(last.out, p)) <= 1
    /\ ~Flags(last).too_many_op_replies

C29_Witness ==
  /\ Returned(last)
  /\ Len(last.inputs.personas) = 2
  /\ Len(last.out.posts) >= 2
  /\ Cardinality(OwnComments(last.out)) >= 2
  /\ ~Flags(last).too_many_op_replies

\* C30: a plan of exactly one post has single_persona_dominates set,
\* whatever the number of personas, and a score of at most 7.
C30_OnePostDominates ==
  (Returned(last) /\ Len(last.out.posts) = 1) =>
    /\ Flags(last).single_persona_dominates
    /\ last.out.quality.score <= 7

C30_Witness ==
  /\ Returned(last)
  /\ Len(last.out.posts) = 1
  /\ Len(last.inputs.personas) = 4
  /\ last.out.quality.score = 7

\* the plan rows of week w
PlanRows(db, w) ==
  {pl \in Range(db.plans) : pl.week_start_date = WeekDate(WeekStart(w))}

\* C23: requests one after the other leave at most one plan row per week;
\* a request for a week that has a plan answers success with reused: true
\* and the id of that plan, and inserts no row.
C23_SecondRequestReuses ==
  [][/\ \A w \in 0..MaxWeek : Cardinality(PlanRows(store', w)) <= 1
     /\ PlanRows(store, last'.week) # {} =>
          /\ store' = store
          /\ last'.res.status = 200
          /\ last'.res.success
          /\ last'.res.reused
          /\ last'.res.planId \in {pl.id : pl \in PlanRows(store, last'.week)}]_vars

C23_Witness ==
  /\ CreatedPlan(prev)
  /\ last # NoCall
  /\ last.route = "generate"
  /\ prev.route = "generate"
  /\ last.week = prev.week
  /\ last.res.status = 200
  /\ last.res.reused
  /\ last.res.planId = prev.res.planId
  /\ Len(store.plans) = 1
  /\ Len(store.posts) = Len(prev.out.posts)

\* the first week from w on that has no plan
FreeFrom(db, w) ==
  CHOOSE f \in w..(w + Len(db.plans)) :
    /\ PlanRows(db, f) = {}
    /\ \A g \in w..(f - 1) : PlanRows(db, g) # {}

\* C24 (as claimed): a click on "next week" that ends without an error has
\* the API generate the week it asked for, reports a plan that did not
\* exist before, and that plan is the one of the first week from next week
\* on that had no plan.
C24_NextFreeWeek ==
  [][(last'.route = "dashboard" /\ ~last'.error) =>
       /\ last'.week = last'.asked
       /\ \A pl \in Range(store.plans) : <<pl.id>> # last'.createdPlanId
       /\ \E pl \in PlanRows(store', FreeFrom(store, last'.now + 1)) :
            <<pl.id>> = last'.createdPlanId]_vars

\* the plan has posts, and comments on them
PlanPersisted(db, planId) ==
  \E q \in Range(db.posts) :
    /\ q.plan_id = planId
    /\ \E c \in Range(db.comments) : c.post_id = q.id

\* C25 (as claimed): a request that fails after the plan row was inserted
\* leaves no plan row for its week, and a plan that a request answers with
\* reused: true has its posts and comments stored.
C25_FailureLeavesNoPlan ==
  /\ (last # NoCall /\ last.res.status = 500) => PlanRows(store, last.week) = {}
  /\ (last # NoCall /\ last.res.status = 200 /\ last.res.reused) =>
       PlanPersisted(store, last.res.planId)

\* C26 (as claimed): when two concurrent requests for one week have both
\* ended, on a company that passes the guards, neither response is an
\* error: one created the plan and its posts, the other answers reused:
\* true with the same planId.
C26_ConcurrentRequestsSucceed ==
  (/\ \A i \in Requests : last[i].pc = "done"
   /\ Len(store.personas) >= 2
   /\ Len(store.subreddits) >= 1
   /\ Len(store.keywords) >= 1) =>
    /\ \A i \in Requests : last[i].res.status = 200
    /\ \E i \in Requests :
         /\ ~last[i].res.reused
         /\ \E q \in Range(store.posts) : q.plan_id = last[i].res.planId
         /\ \A j \in Requests \ {i} :
              last[j].res.reused /\ last[j].res.planId = last[i].res.planId

====
